---------------------------- MODULE Spec2Model ----------------------------
(***************************************************************************)
(* Model of the WeChat proxy endpoints of kvker/AccessToken.               *)
(*                                                                         *)
(*   routes/wx/wx.js          GET /mp, GET /openid, POST /acode            *)
(*   wx router with payment   POST /pay/v2, POST /pay/v2/notify            *)
(*   routes/api.js            GET /wx/mp, GET /wx/openid, GET /wx/acode    *)
(*                                                                         *)
(* JavaScript strings are sequences of UTF-16 code units, so that the      *)
(* default Array.prototype.sort order and template-literal concatenation   *)
(* are computed rather than assumed.  A JavaScript value is a record       *)
(* [t, s]: t is its typeof ("undefined", "string", "number"), s its        *)
(* string conversion's code units (empty for undefined).                   *)
(***************************************************************************)
EXTENDS Integers, Sequences, FiniteSets, TLC

VARIABLES
    \* ---- routes/wx/wx.js: /mp, /openid, /acode ----
    wxReq,        \* per request: endpoint and the destructured parameters
    wxPc,         \* per request: position of its async handler
    wxReply,      \* per request: the last upstream reply the handler consumed
    wxCalls,      \* per request: outbound axios calls made so far, in order
    wxWrote,      \* per request: whether it executed fs.writeFileSync
    wxRes,        \* per request: the response sent on res
    wxOverlap,    \* pairs of requests that were in flight at the same time
    wxGot,        \* per request: what its caller keeps once it is answered
    bufferPng,    \* contents of public/images/buffer.png
    \* ---- POST /pay/v2 ----
    payPc,        \* position of the handler
    payReq,       \* req.body fields read by the route
    orderInfo,    \* the orderInfo object the route builds
    signString,   \* local signString of onPostWxPayV2
    payXml,       \* body posted to the unified-order endpoint
    payCalls,     \* number of axios.post calls to the gateway
    payReply,     \* the gateway's reply to this request
    payRes,       \* the response sent on res
    \* ---- POST /pay/v2/notify ----
    ntPc,         \* position of the handler
    ntReq,        \* content type and headers of the request
    ntXml,        \* local xml: the chunks received so far, concatenated
    ntChunks,     \* the chunks the stream delivered, in arrival order
    ntRead,       \* whether 'data' listeners were attached (body read)
    ntEnded,      \* whether the stream emitted 'end'
    ntSent,       \* responses sent on res, in order
    \* ---- routes/api.js ----
    apiPc,        \* position of the handler
    apiReq,       \* route and req.query
    apiCalls,     \* outbound axios calls made, in order
    apiUp,        \* the token upstream's reply
    apiSent       \* responses sent on res, in order

wxVars == <<wxReq, wxPc, wxReply, wxCalls, wxWrote, wxRes, wxOverlap, wxGot, bufferPng>>
payVars == <<payPc, payReq, orderInfo, signString, payXml, payCalls, payReply, payRes>>
ntVars == <<ntPc, ntReq, ntXml, ntChunks, ntRead, ntEnded, ntSent>>
apiVars == <<apiPc, apiReq, apiCalls, apiUp, apiSent>>
vars == <<wxVars, payVars, ntVars, apiVars>>

-----------------------------------------------------------------------------
(* String literals of the source, as UTF-16 code units.                    *)

\* 'appid'
K_appid ==
    <<97, 112, 112, 105, 100>>
\* 'mch_id'
K_mch_id ==
    <<109, 99, 104, 95, 105, 100>>
\* 'nonce_str'
K_nonce_str ==
    <<110, 111, 110, 99, 101, 95, 115, 116, 114>>
\* 'body'
K_body ==
    <<98, 111, 100, 121>>
\* 'attach'
K_attach ==
    <<97, 116, 116, 97, 99, 104>>
\* 'out_trade_no'
K_out_trade_no ==
    <<111, 117, 116, 95, 116, 114, 97, 100, 101, 95, 110, 111>>
\* 'total_fee'
K_total_fee ==
    <<116, 111, 116, 97, 108, 95, 102, 101, 101>>
\* 'notify_url'
K_notify_url ==
    <<110, 111, 116, 105, 102, 121, 95, 117, 114, 108>>
\* 'openid'
K_openid ==
    <<111, 112, 101, 110, 105, 100>>
\* 'trade_type'
K_trade_type ==
    <<116, 114, 97, 100, 101, 95, 116, 121, 112, 101>>
\* 'sign'
K_sign ==
    <<115, 105, 103, 110>>
\* 'undefined'
S_undefined ==
    <<117, 110, 100, 101, 102, 105, 110, 101, 100>>
\* 'JSAPI'
S_JSAPI ==
    <<74, 83, 65, 80, 73>>
\* 'MD5'
S_MD5 ==
    <<77, 68, 53>>
\* 'key='
S_keyEq ==
    <<107, 101, 121, 61>>
\* 'prepay_id='
S_prepayIdEq ==
    <<112, 114, 101, 112, 97, 121, 95, 105, 100, 61>>
\* 'appId='
S_appIdEq ==
    <<97, 112, 112, 73, 100, 61>>
\* '&nonceStr='
S_ampNonceStrEq ==
    <<38, 110, 111, 110, 99, 101, 83, 116, 114, 61>>
\* '&package='
S_ampPackageEq ==
    <<38, 112, 97, 99, 107, 97, 103, 101, 61>>
\* '&signType='
S_ampSignTypeEq ==
    <<38, 115, 105, 103, 110, 84, 121, 112, 101, 61>>
\* '&timeStamp='
S_ampTimeStampEq ==
    <<38, 116, 105, 109, 101, 83, 116, 97, 109, 112, 61>>
\* '&key='
S_ampKeyEq ==
    <<38, 107, 101, 121, 61>>
\* 'wx1'
S_wx1 ==
    <<119, 120, 49>>
\* 'sec'
S_sec ==
    <<115, 101, 99>>
\* 'mch1'
S_mch1 ==
    <<109, 99, 104, 49>>
\* 'k1'
S_k1 ==
    <<107, 49>>
\* 'oid'
S_oid ==
    <<111, 105, 100>>
\* 'https://x'
S_url ==
    <<104, 116, 116, 112, 115, 58, 47, 47, 120>>
\* '测试商品'
S_body ==
    <<27979, 35797, 21830, 21697>>
\* '{"name":"测试商品","price":1,"quantity":1,"id":123}'
S_attach ==
    <<123, 34, 110, 97, 109, 101, 34, 58, 34, 27979, 35797, 21830, 21697, 34, 44, 34, 112, 114, 105, 99, 101, 34, 58, 49, 44, 34, 113, 117, 97, 110, 116, 105, 116, 121, 34, 58, 49, 44, 34, 105, 100, 34, 58, 49, 50, 51, 125>>
\* '1'
S_one ==
    <<49>>
\* 'prepay_id'
K_prepay_id ==
    <<112, 114, 101, 112, 97, 121, 95, 105, 100>>
\* 'return_code'
K_return_code ==
    <<114, 101, 116, 117, 114, 110, 95, 99, 111, 100, 101>>
\* 'return_msg'
K_return_msg ==
    <<114, 101, 116, 117, 114, 110, 95, 109, 115, 103>>
\* 'SUCCESS'
S_SUCCESS ==
    <<83, 85, 67, 67, 69, 83, 83>>
\* 'FAIL'
S_FAIL ==
    <<70, 65, 73, 76>>
\* 'pp1'
S_pp1 ==
    <<112, 112, 49>>
\* 'pp2'
S_pp2 ==
    <<112, 112, 50>>
\* '='
S_eq ==
    <<61>>
\* '&'
S_amp ==
    <<38>>
\* 'a1'
S_n1 ==
    <<97, 49>>
\* 'b2'
S_n2 ==
    <<98, 50>>
\* '0c'
S_o1 ==
    <<48, 99>>
\* '0d'
S_o2 ==
    <<48, 100>>
\* '17'
S_t1 ==
    <<49, 55>>
\* '18'
S_t2 ==
    <<49, 56>>
\* 'c1'
S_c1 ==
    <<99, 49>>
\* 'p1'
S_p1 ==
    <<112, 49>>
\* 'p2'
S_p2 ==
    <<112, 50>>
\* 's1'
S_s1 ==
    <<115, 49>>
\* 'release'
S_release ==
    <<114, 101, 108, 101, 97, 115, 101>>
\* 'trial'
S_trial ==
    <<116, 114, 105, 97, 108>>
\* 'T1'
S_T1 ==
    <<84, 49>>
\* '7200'
S_7200 ==
    <<55, 50, 48, 48>>
\* '40013'
S_40013 ==
    <<52, 48, 48, 49, 51>>
\* 'invalid appid'
S_invalidAppid ==
    <<105, 110, 118, 97, 108, 105, 100, 32, 97, 112, 112, 105, 100>>
\* 'o-1'
S_openid1 ==
    <<111, 45, 49>>
\* 'sk1'
S_sessionKey1 ==
    <<115, 107, 49>>
\* '40001'
S_40001 ==
    <<52, 48, 48, 48, 49>>
\* 'invalid credential'
S_invalidCredential ==
    <<105, 110, 118, 97, 108, 105, 100, 32, 99, 114, 101, 100, 101, 110, 116, 105, 97, 108>>
\* 'errcode'
S_errcode ==
    <<101, 114, 114, 99, 111, 100, 101>>
\* '{"errcode":40001,"errmsg":"invalid credential"}'
S_errJsonText ==
    <<123, 34, 101, 114, 114, 99, 111, 100, 101, 34, 58, 52, 48, 48, 48, 49, 44, 34, 101, 114, 114, 109, 115, 103, 34, 58, 34, 105, 110, 118, 97, 108, 105, 100, 32, 99, 114, 101, 100, 101, 110, 116, 105, 97, 108, 34, 125>>
\* '<html>errcode 502</html>'
S_errText ==
    <<60, 104, 116, 109, 108, 62, 101, 114, 114, 99, 111, 100, 101, 32, 53, 48, 50, 60, 47, 104, 116, 109, 108, 62>>
\* '/images/buffer.png'
S_bufferUrl ==
    <<47, 105, 109, 97, 103, 101, 115, 47, 98, 117, 102, 102, 101, 114, 46, 112, 110, 103>>

-----------------------------------------------------------------------------
(* JavaScript values and the built-ins the handlers use.                   *)

Undefined == [t |-> "undefined", s |-> <<>>]

Str(s) == [t |-> "string", s |-> s]

Num(digits) == [t |-> "number", s |-> digits]

\* !v is false exactly for these: undefined and '' are falsy, so is 0.
Truthy(v) ==
    /\ v.t # "undefined"
    /\ v.s # <<>>
    /\ ~(v.t = "number" /\ v.s = <<48>>)

\* `${v}` and '' + v
StringOf(v) == IF v.t = "undefined" THEN S_undefined ELSE v.s

\* destructuring default: { x = d } takes d only when x is undefined
Default(v, d) == IF v.t = "undefined" THEN d ELSE v

\* a < b on strings: comparison of UTF-16 code units, a proper prefix first
LexLess(a, b) ==
    \E i \in 1..(Len(a) + 1) :
        /\ \A j \in 1..(i - 1) : j <= Len(b) /\ a[j] = b[j]
        /\ \/ i = Len(a) + 1 /\ Len(b) >= i
           \/ i <= Len(a) /\ i <= Len(b) /\ a[i] < b[i]

RECURSIVE SortInsert(_, _)
SortInsert(sorted, k) ==
    IF sorted = <<>> THEN <<k>>
    ELSE IF LexLess(k, Head(sorted)) THEN <<k>> \o sorted
    ELSE <<Head(sorted)>> \o SortInsert(Tail(sorted), k)

\* a sort that leaves Object.keys' insertion order
ArraySortUnsorted(keys) == keys

\* keys.sort() with no comparator: ascending by code units
RECURSIVE ArraySort(_)
ArraySort(keys) ==
    IF keys = <<>> THEN <<>>
    ELSE SortInsert(ArraySort(SubSeq(keys, 1, Len(keys) - 1)), keys[Len(keys)])

\* An object literal is the sequence of its <<key, value>> properties in
\* insertion order, which is the order Object.keys reports.
ObjectKeys(obj) == [i \in 1..Len(obj) |-> obj[i][1]]

HasKey(obj, key) == \E i \in 1..Len(obj) : obj[i][1] = key

Get(obj, key) ==
    IF HasKey(obj, key)
    THEN obj[CHOOSE i \in 1..Len(obj) : obj[i][1] = key][2]
    ELSE Undefined

\* crypto.createHash('md5').update(s).digest('hex'): the digest is kept as a
\* symbolic term over its input (the marker -1 is no code unit), so two
\* digests are equal exactly when their inputs are.
MD5Hex(s) == <<-1>> \o s

-----------------------------------------------------------------------------
(* routes/wx/wx.js: GET /mp, GET /openid, POST /acode.                     *)

\* requests the server handles in one run, numbered in arrival order
MaxRequests == 2

Requests == 1..MaxRequests

\* values a caller may put in a query or body field: absent, '' or a string
Field(s) == {Undefined, Str(<<>>), Str(s)}

\* a JSON object of the upstream APIs and of the responses; an absent
\* property is Undefined
NoJson ==
    [access_token |-> Undefined, expires_in |-> Undefined,
     openid |-> Undefined, session_key |-> Undefined,
     errcode |-> Undefined, errmsg |-> Undefined,
     data |-> [url |-> Undefined]]

NoWxReq ==
    [route |-> "none", appId |-> Undefined, appSecret |-> Undefined,
     code |-> Undefined, page |-> Undefined, scene |-> Undefined,
     env_version |-> Undefined]

\* env_version values callers send: absent (the default applies) or a version
EnvVersions == {Undefined, Str(S_trial)}

NoGot == [url |-> <<>>, asked |-> <<>>]

\* status 0: nothing sent yet
NoWxRes == [status |-> 0, error |-> "", data |-> NoJson]

\* what an axios call settles with: kind "json" (axios.get resolved with
\* data), "bytes" (the arraybuffer of axios.post) or "reject" (network
\* failure or non-2xx status, with error.message)
NoUpstream == [kind |-> "none", json |-> NoJson, bytes |-> <<>>, message |-> ""]

Rejections ==
    {[NoUpstream EXCEPT !.kind = "reject", !.message = "Network Error"],
     [NoUpstream EXCEPT !.kind = "reject",
        !.message = "Request failed with status code 500"]}

\* cgi-bin/token answers 200 with the token or with an errcode document
TokenReplies ==
    {[NoUpstream EXCEPT !.kind = "json",
        !.json = [NoJson EXCEPT !.access_token = Str(S_T1),
                                !.expires_in = Num(S_7200)]],
     [NoUpstream EXCEPT !.kind = "json",
        !.json = [NoJson EXCEPT !.errcode = Num(S_40013),
                                !.errmsg = Str(S_invalidAppid)]]}
        \cup Rejections

\* sns/jscode2session answers 200 with the session or with an errcode document
OpenIdReplies ==
    {[NoUpstream EXCEPT !.kind = "json",
        !.json = [NoJson EXCEPT !.openid = Str(S_openid1),
                                !.session_key = Str(S_sessionKey1)]],
     [NoUpstream EXCEPT !.kind = "json",
        !.json = [NoJson EXCEPT !.errcode = Num(S_40013),
                                !.errmsg = Str(S_invalidAppid)]]}
        \cup Rejections

\* an outbound call: the API and the values interpolated into its url or
\* put in its body
TokenCall(appId, appSecret) ==
    [api |-> "cgi-bin/token", args |-> <<StringOf(appId), StringOf(appSecret)>>]

OpenIdCall(appId, appSecret, code) ==
    [api |-> "sns/jscode2session",
     args |-> <<StringOf(appId), StringOf(appSecret), StringOf(code)>>]

\* the url carries `${data.access_token}`; the body is { scene, page, env_version }
ACodeCall(data, scene, page, env_version) ==
    [api |-> "wxa/getwxacodeunlimit",
     args |-> <<StringOf(data.access_token), scene.s, page.s, env_version.s>>]

\* the PNG the gateway renders for a getwxacodeunlimit call: its bytes are
\* determined by the scene, page and env_version of that call
ImageOf(call) ==
    <<137, 80, 78, 71>> \o call.args[2] \o <<0>> \o call.args[3]
        \o <<0>> \o call.args[4]

\* getwxacodeunlimit answers with the image when the token is valid and a
\* scene is given, else with an errcode document; a proxy in front of it
\* may answer with an error page
ACodeReplies(call) ==
    {[NoUpstream EXCEPT !.kind = "bytes", !.bytes = S_errJsonText],
     [NoUpstream EXCEPT !.kind = "bytes", !.bytes = S_errText]}
        \cup Rejections
        \cup IF call.args[1] = S_T1 /\ call.args[2] # <<>>
             THEN {[NoUpstream EXCEPT !.kind = "bytes", !.bytes = ImageOf(call)]}
             ELSE {}

\* a test that looks at the start of the string only
IncludesAtStart(str, sub) == SubSeq(str, 1, Len(sub)) = sub

\* str.includes(sub)
Includes(str, sub) ==
    \E i \in 1..(Len(str) - Len(sub) + 1) : SubSeq(str, i, i + Len(sub) - 1) = sub

\* JSON.parse of the texts the gateway sends: the errcode document parses,
\* anything else throws a SyntaxError
JsonParse(text) ==
    IF text = S_errJsonText
    THEN [threw |-> FALSE,
          value |-> [NoJson EXCEPT !.errcode = Num(S_40001),
                                   !.errmsg = Str(S_invalidCredential)]]
    ELSE [threw |-> TRUE, value |-> NoJson]

\* a guard that rejects only when both are missing
MpParamsMissingBoth(q) == ~Truthy(q.appId) /\ ~Truthy(q.appSecret)

\* if (!appId || !appSecret)
MpParamsMissing(q) == ~Truthy(q.appId) \/ ~Truthy(q.appSecret)

\* if (!appId || !appSecret || !code)
OpenIdParamsMissing(q) ==
    ~Truthy(q.appId) \/ ~Truthy(q.appSecret) \/ ~Truthy(q.code)

\* if (!appId || !appSecret || !page)
ACodeParamsMissing(q) ==
    ~Truthy(q.appId) \/ ~Truthy(q.appSecret) \/ ~Truthy(q.page)

\* request r is the next to arrive; a handler that has answered is released
\* before the event loop runs anything else
Arrives(r) ==
    /\ wxPc[r] = "idle"
    /\ \A q \in Requests : q < r => wxPc[q] # "idle"
    /\ \A q \in Requests : wxPc[q] # "done"

InFlight == {q \in Requests : wxPc[q] \in {"awaitToken", "awaitOpenId", "awaitACode"}}

\* the awaited call of request r settles
Settles(r, pc) ==
    /\ wxPc[r] = pc
    /\ \A q \in Requests : wxPc[q] # "done"

Ok200(json) == [status |-> 200, error |-> "", data |-> json]

Err400(message) == [status |-> 400, error |-> message, data |-> NoJson]

\* the guard's `return res.status(400).json({ error })`
Reject(r, message) ==
    /\ wxRes' = [wxRes EXCEPT ![r] = Err400(message)]
    /\ wxPc' = [wxPc EXCEPT ![r] = "done"]
    /\ UNCHANGED <<wxCalls, wxOverlap>>

\* the handler's first axios call, at which it suspends
FirstCall(r, call, pc) ==
    /\ wxCalls' = [wxCalls EXCEPT ![r] = <<call>>]
    /\ wxPc' = [wxPc EXCEPT ![r] = pc]
    /\ wxOverlap' = wxOverlap \cup {{r, q} : q \in InFlight}
    /\ UNCHANGED wxRes

\* a handler closes with this response
Finish(r, res) ==
    /\ wxRes' = [wxRes EXCEPT ![r] = res]
    /\ wxPc' = [wxPc EXCEPT ![r] = "done"]

\* router.get('/mp') up to `await axios.get(url)` in onGetWxMpAccessToken
WxGetMp(r) ==
    /\ Arrives(r)
    /\ \E appId \in Field(S_wx1), appSecret \in Field(S_sec) :
        LET q == [NoWxReq EXCEPT !.route = "/mp", !.appId = appId,
                                 !.appSecret = appSecret]
        IN  /\ wxReq' = [wxReq EXCEPT ![r] = q]
            /\ IF MpParamsMissing(q)
               THEN Reject(r, "appId and appSecret are required")
               ELSE FirstCall(r, TokenCall(appId, appSecret), "awaitToken")
    /\ UNCHANGED <<wxReply, wxWrote, wxGot, bufferPng, payVars, ntVars, apiVars>>

\* router.get('/openid') up to `await axios.get(url)` in onGetWxMpOpenId
WxGetOpenId(r) ==
    /\ Arrives(r)
    /\ \E appId \in Field(S_wx1), appSecret \in Field(S_sec), code \in Field(S_c1) :
        LET q == [NoWxReq EXCEPT !.route = "/openid", !.appId = appId,
                                 !.appSecret = appSecret, !.code = code]
        IN  /\ wxReq' = [wxReq EXCEPT ![r] = q]
            /\ IF OpenIdParamsMissing(q)
               THEN Reject(r, "appId and appSecret and code are required")
               ELSE FirstCall(r, OpenIdCall(appId, appSecret, code), "awaitOpenId")
    /\ UNCHANGED <<wxReply, wxWrote, wxGot, bufferPng, payVars, ntVars, apiVars>>

\* router.post('/acode') up to `await axios.get(url)` of the token call that
\* onPostWxMpACode starts with
WxPostACode(r) ==
    /\ Arrives(r)
    /\ \E appId \in Field(S_wx1), appSecret \in Field(S_sec),
          page \in Field(S_p1) \cup {Str(S_p2)}, scene \in Field(S_s1),
          env_version \in EnvVersions :
        LET q == [NoWxReq EXCEPT !.route = "/acode", !.appId = appId,
                                 !.appSecret = appSecret, !.page = page,
                                 !.scene = scene,
                                 !.env_version = Default(env_version, Str(S_release))]
        IN  /\ wxReq' = [wxReq EXCEPT ![r] = q]
            /\ IF ACodeParamsMissing(q)
               THEN Reject(r, "appId and appSecret and page are required")
               ELSE FirstCall(r, TokenCall(appId, appSecret), "awaitToken")
    /\ UNCHANGED <<wxReply, wxWrote, wxGot, bufferPng, payVars, ntVars, apiVars>>

\* the token call settles: onGetWxMpAccessToken returns data or rethrows.
\* /mp answers; onPostWxMpACode goes on to post getwxacodeunlimit.
WxTokenReply(r) ==
    /\ Settles(r, "awaitToken")
    /\ \E reply \in TokenReplies :
        IF reply.kind = "reject"
        THEN /\ Finish(r, Err400(reply.message))
             /\ wxReply' = [wxReply EXCEPT ![r] = reply]
             /\ UNCHANGED wxCalls
        ELSE IF wxReq[r].route = "/mp"
        THEN /\ Finish(r, Ok200(reply.json))
             /\ wxReply' = [wxReply EXCEPT ![r] = reply]
             /\ UNCHANGED wxCalls
        ELSE /\ wxCalls' = [wxCalls EXCEPT ![r] =
                    Append(@, ACodeCall(reply.json, wxReq[r].scene, wxReq[r].page,
                                        wxReq[r].env_version))]
             /\ wxPc' = [wxPc EXCEPT ![r] = "awaitACode"]
             /\ UNCHANGED <<wxRes, wxReply>>
    /\ UNCHANGED <<wxReq, wxWrote, wxOverlap, wxGot, bufferPng,
                   payVars, ntVars, apiVars>>

\* the jscode2session call settles and /openid answers
WxOpenIdReply(r) ==
    /\ Settles(r, "awaitOpenId")
    /\ \E reply \in OpenIdReplies :
        /\ wxReply' = [wxReply EXCEPT ![r] = reply]
        /\ IF reply.kind = "reject"
           THEN Finish(r, Err400(reply.message))
           ELSE Finish(r, Ok200(reply.json))
    /\ UNCHANGED <<wxReq, wxCalls, wxWrote, wxOverlap, wxGot, bufferPng,
                   payVars, ntVars, apiVars>>

\* the getwxacodeunlimit call settles: the rest of onPostWxMpACode and the
\* route's res.json({ data }) or its catch
WxACodeReply(r) ==
    /\ Settles(r, "awaitACode")
    /\ \E reply \in ACodeReplies(wxCalls[r][2]) :
        /\ wxReply' = [wxReply EXCEPT ![r] = reply]
        /\ IF reply.kind = "reject"
           THEN /\ Finish(r, Err400(reply.message))
                /\ UNCHANGED <<wxWrote, bufferPng>>
           ELSE IF Includes(reply.bytes, S_errcode)
           THEN /\ IF JsonParse(reply.bytes).threw
                   THEN Finish(r, Err400("Unexpected token < in JSON at position 0"))
                   ELSE Finish(r, Ok200(JsonParse(reply.bytes).value))
                /\ UNCHANGED <<wxWrote, bufferPng>>
           ELSE /\ bufferPng' = reply.bytes
                /\ wxWrote' = [wxWrote EXCEPT ![r] = TRUE]
                /\ Finish(r, Ok200([NoJson EXCEPT !.data.url = Str(S_bufferUrl)]))
    /\ UNCHANGED <<wxReq, wxCalls, wxOverlap, wxGot, payVars, ntVars, apiVars>>

\* the response is flushed and req and res are released; the caller keeps
\* what it was answered: the url, if any, and the page, scene and
\* env_version it asked the code for
WxClose(r) ==
    /\ wxPc[r] = "done"
    /\ wxGot' = [wxGot EXCEPT ![r] =
          IF wxRes[r].status = 200 /\ wxRes[r].data.data.url # Undefined
          THEN [url |-> wxRes[r].data.data.url.s,
                asked |-> <<wxReq[r].scene.s, wxReq[r].page.s, wxReq[r].env_version.s>>]
          ELSE NoGot]
    /\ wxPc' = [wxPc EXCEPT ![r] = "closed"]
    /\ wxReq' = [wxReq EXCEPT ![r] = NoWxReq]
    /\ wxRes' = [wxRes EXCEPT ![r] = NoWxRes]
    /\ wxReply' = [wxReply EXCEPT ![r] = NoUpstream]
    /\ wxCalls' = [wxCalls EXCEPT ![r] = <<>>]
    /\ wxWrote' = [wxWrote EXCEPT ![r] = FALSE]
    /\ UNCHANGED <<wxOverlap, bufferPng, payVars, ntVars, apiVars>>

WxNext ==
    \E r \in Requests :
        \/ WxGetMp(r)
        \/ WxGetOpenId(r)
        \/ WxPostACode(r)
        \/ WxTokenReply(r)
        \/ WxOpenIdReply(r)
        \/ WxACodeReply(r)
        \/ WxClose(r)

-----------------------------------------------------------------------------
(* Properties of routes/wx/wx.js.                                          *)

\* a parameter the caller left out or sent empty
MissingOrEmpty(v) == v = Undefined \/ v = Str(<<>>)

\* the reply's text contains the seven code units of "errcode"
HasErrorIndicator(bytes) ==
    \E i \in 1..Len(bytes) :
        /\ i + 6 <= Len(bytes)
        /\ \A k \in 0..6 : bytes[i + k] = S_errcode[k + 1]

\* C1: on /mp, /openid and /acode a request whose appId or appSecret is
\* missing or empty is answered 400 with {error: message}, and no outbound
\* call is made while it is handled.
C1_MissingCredentialsRejected ==
    \A r \in Requests :
        (/\ wxReq[r].route \in {"/mp", "/openid", "/acode"}
         /\ MissingOrEmpty(wxReq[r].appId) \/ MissingOrEmpty(wxReq[r].appSecret))
        => /\ wxPc[r] = "done"
           /\ wxRes[r].status = 400
           /\ wxRes[r].error # ""
           /\ wxRes[r].data = NoJson
           /\ wxCalls[r] = <<>>

\* C1 witness: an /acode request with an empty appId and everything else
\* supplied has been answered.
C1_Witness ==
    \E r \in Requests :
        /\ wxReq[r].route = "/acode"
        /\ wxReq[r].appId = Str(<<>>)
        /\ wxReq[r].appSecret = Str(S_sec)
        /\ wxReq[r].page = Str(S_p1)
        /\ wxReq[r].scene = Str(S_s1)
        /\ wxRes[r].status = 400

\* C5: in the QR-code flow a getwxacodeunlimit reply that contains errcode
\* is not treated as image data: this request writes no buffer.png and
\* returns no url, and the gateway's error JSON is what the caller gets as
\* data, unchanged.
C5_GatewayErrorRelayed ==
    \A r \in Requests :
        (/\ wxReq[r].route = "/acode"
         /\ wxPc[r] = "done"
         /\ wxReply[r].kind = "bytes"
         /\ HasErrorIndicator(wxReply[r].bytes))
        => /\ ~wxWrote[r]
           /\ wxRes[r].data.data.url = Undefined
           /\ wxReply[r].bytes = S_errJsonText =>
                 /\ wxRes[r].status = 200
                 /\ wxRes[r].error = ""
                 /\ wxRes[r].data =
                       [NoJson EXCEPT !.errcode = Num(S_40001),
                                      !.errmsg = Str(S_invalidCredential)]

\* C5 witness: a request with a valid token got the errcode document from
\* getwxacodeunlimit and has been answered.
C5_Witness ==
    \E r \in Requests :
        /\ wxReq[r].route = "/acode"
        /\ wxPc[r] = "done"
        /\ Len(wxCalls[r]) = 2
        /\ wxCalls[r][2].args[1] = S_T1
        /\ wxReply[r].bytes = S_errJsonText
        /\ wxRes[r].status = 200

\* the image the gateway renders for what a caller asked
ImageAsked(asked) ==
    <<137, 80, 78, 71>> \o asked[1] \o <<0>> \o asked[2] \o <<0>> \o asked[3]

\* C7 (as claimed): requests share no mutable state: for two /acode
\* requests with different parameters that were in flight together and both
\* succeeded, the image at the url each was given is the image rendered for
\* its own page and scene.
C7_EachRequestSeesOwnImage ==
    \A r1 \in Requests, r2 \in Requests :
        (/\ {r1, r2} \in wxOverlap
         /\ wxGot[r1].url = S_bufferUrl
         /\ wxGot[r2].url = S_bufferUrl
         /\ wxGot[r1].asked # wxGot[r2].asked)
        => /\ bufferPng = ImageAsked(wxGot[r1].asked)
           /\ bufferPng = ImageAsked(wxGot[r2].asked)

\* C8 (as claimed): /acode requires appId, appSecret, page and scene: a
\* request in which any of the four is missing or empty makes no outbound
\* call and is answered 400 with {error: message}.
C8_ACodeRequiresScene ==
    \A r \in Requests :
        (/\ wxReq[r].route = "/acode"
         /\ \/ MissingOrEmpty(wxReq[r].appId)
            \/ MissingOrEmpty(wxReq[r].appSecret)
            \/ MissingOrEmpty(wxReq[r].page)
            \/ MissingOrEmpty(wxReq[r].scene))
        => /\ wxCalls[r] = <<>>
           /\ wxPc[r] = "done" => wxRes[r].status = 400 /\ wxRes[r].error # ""

-----------------------------------------------------------------------------
(* POST /pay/v2: router.post('/pay/v2') and onPostWxPayV2.                 *)

\* crypto.randomBytes(16).toString('hex'), two possible draws each
Nonces == {S_n1, S_n2}

TradeNos == {S_o1, S_o2}

\* Date.now() + ''
Times == {S_t1, S_t2}

NoOrder ==
    [appId |-> Undefined, mchId |-> Undefined, nonceString |-> Undefined,
     body |-> Undefined, attach |-> Undefined, outTradeNo |-> Undefined,
     totalFee |-> Undefined, notifyUrl |-> Undefined, openId |-> Undefined,
     tradeType |-> Undefined]

NoPayReq ==
    [appId |-> Undefined, appSecret |-> Undefined, mchId |-> Undefined,
     openId |-> Undefined, notifyUrl |-> Undefined, apiKey |-> Undefined]

NoData ==
    [appId |-> <<>>, timeStamp |-> <<>>, nonceStr |-> <<>>, package |-> <<>>,
     signType |-> <<>>, paySign |-> <<>>]

\* status 0: nothing sent yet
NoRes == [status |-> 0, error |-> "", data |-> NoData]

\* the replies of https://api.mch.weixin.qq.com/pay/unifiedorder as axios and
\* xml2js.parseStringPromise report them: kind "networkError"/"httpError"
\* reject axios.post, "notXml" rejects the parse, "xml" parses to result.xml
XmlFail ==
    << <<K_return_code, <<S_FAIL>> >>, <<K_return_msg, <<S_FAIL>> >> >>

XmlOk(prepayId) ==
    << <<K_return_code, <<S_SUCCESS>> >>, <<K_prepay_id, <<prepayId>> >> >>

NoReply == [kind |-> "none", message |-> "", xml |-> <<>>]

PayReplies ==
    {[kind |-> "networkError", message |-> "Network Error", xml |-> <<>>],
     [kind |-> "httpError", message |-> "Request failed with status code 500",
      xml |-> <<>>],
     [kind |-> "notXml", message |-> "Non-whitespace before first tag.",
      xml |-> <<>>],
     [kind |-> "xml", message |-> "", xml |-> XmlFail],
     [kind |-> "xml", message |-> "", xml |-> XmlOk(S_pp1)],
     [kind |-> "xml", message |-> "", xml |-> XmlOk(S_pp2)]}

\* the route's guard: if (!appId || !appSecret || !mchId || !apiKey)
PayParamsMissing(b) ==
    ~Truthy(b.appId) \/ ~Truthy(b.appSecret) \/ ~Truthy(b.mchId) \/ ~Truthy(b.apiKey)

\* the orderInfo literal the route passes to onPostWxPayV2
RouteOrderInfo(b, nonceString, outTradeNo) ==
    [appId |-> b.appId, mchId |-> b.mchId, nonceString |-> Str(nonceString),
     body |-> Str(S_body), attach |-> Str(S_attach),
     outTradeNo |-> Str(outTradeNo), totalFee |-> Num(S_one),
     notifyUrl |-> b.notifyUrl, openId |-> b.openId, tradeType |-> Undefined]

\* const wxOrderInfo = { appid: appId, ..., trade_type: tradeType }
WxOrderInfo(o) ==
    << <<K_appid, o.appId>>,
       <<K_mch_id, o.mchId>>,
       <<K_nonce_str, o.nonceString>>,
       <<K_body, o.body>>,
       <<K_attach, o.attach>>,
       <<K_out_trade_no, o.outTradeNo>>,
       <<K_total_fee, o.totalFee>>,
       <<K_notify_url, o.notifyUrl>>,
       <<K_openid, o.openId>>,
       <<K_trade_type, Default(o.tradeType, Str(S_JSAPI))>> >>

\* keys.reduce((acc, key) => acc + `${key}=${wxOrderInfo[key]}&`, '')
RECURSIVE KeysReduce(_, _, _)
KeysReduce(keys, obj, acc) ==
    IF keys = <<>> THEN acc
    ELSE KeysReduce(Tail(keys), obj,
                    acc \o Head(keys) \o S_eq \o StringOf(Get(obj, Head(keys))) \o S_amp)

\* const signString = keys.reduce(...) + 'key=' + apiKey
SignStringOf(apiKey, wxOrderInfo) ==
    KeysReduce(ArraySort(ObjectKeys(wxOrderInfo)), wxOrderInfo, <<>>)
        \o S_keyEq \o StringOf(apiKey)

\* wxOrderInfo.sign = sign
WithSign(wxOrderInfo, sign) == Append(wxOrderInfo, <<K_sign, Str(sign)>>)

\* new xml2js.Builder().buildObject(obj): one child element per property, in
\* property order; a null or undefined property becomes an empty element
BuildObject(obj) ==
    [i \in 1..Len(obj) |->
        [name |-> obj[i][1],
         text |-> IF obj[i][2].t = "undefined" THEN <<>> ELSE obj[i][2].s]]

\* a reading of prepay_id that yields undefined instead of throwing
PrepayIdOfLenient(xml) ==
    IF HasKey(xml, K_prepay_id)
    THEN [threw |-> FALSE, value |-> Str(Get(xml, K_prepay_id)[1])]
    ELSE [threw |-> FALSE, value |-> Undefined]

\* result.xml['prepay_id'][0]: indexing undefined throws a TypeError
PrepayIdOf(xml) ==
    IF HasKey(xml, K_prepay_id)
    THEN [threw |-> FALSE, value |-> Str(Get(xml, K_prepay_id)[1])]
    ELSE [threw |-> TRUE, value |-> Undefined]

\* the paySign input with key= moved into code-unit order
PaySignStringSorted(appId, nonceString, prepayId, timeStamp, apiKey) ==
    S_appIdEq \o StringOf(appId) \o S_ampKeyEq \o StringOf(apiKey)
        \o S_ampNonceStrEq \o StringOf(nonceString)
        \o S_ampPackageEq \o S_prepayIdEq \o StringOf(prepayId)
        \o S_ampSignTypeEq \o S_MD5 \o S_ampTimeStampEq \o timeStamp

\* `appId=${appId}&nonceStr=${nonceString}&package=prepay_id=${prepayId}
\*  &signType=MD5&timeStamp=${timeStamp}&key=${apiKey}`
PaySignString(appId, nonceString, prepayId, timeStamp, apiKey) ==
    S_appIdEq \o StringOf(appId) \o S_ampNonceStrEq \o StringOf(nonceString)
        \o S_ampPackageEq \o S_prepayIdEq \o StringOf(prepayId)
        \o S_ampSignTypeEq \o S_MD5 \o S_ampTimeStampEq \o timeStamp
        \o S_ampKeyEq \o StringOf(apiKey)

\* the object onPostWxPayV2 returns
PayResult(o, prepayId, timeStamp, apiKey) ==
    [appId |-> StringOf(o.appId),
     timeStamp |-> timeStamp,
     nonceStr |-> StringOf(o.nonceString),
     package |-> S_prepayIdEq \o StringOf(prepayId),
     signType |-> S_MD5,
     paySign |-> MD5Hex(PaySignString(o.appId, o.nonceString, prepayId,
                                      timeStamp, apiKey))]

\* router.post('/pay/v2') from its first line to the first await: the guard,
\* the random draws, and onPostWxPayV2 up to `await axios.post(...)`
PayReceive ==
    /\ payPc = "idle"
    /\ \E appId \in Field(S_wx1), appSecret \in Field(S_sec),
          mchId \in Field(S_mch1), apiKey \in Field(S_k1),
          openId \in Field(S_oid), notifyUrl \in Field(S_url),
          nonceString \in Nonces, outTradeNo \in TradeNos :
        LET b == [appId |-> appId, appSecret |-> appSecret, mchId |-> mchId,
                  openId |-> openId, notifyUrl |-> notifyUrl, apiKey |-> apiKey]
            o == RouteOrderInfo(b, nonceString, outTradeNo)
            wx == WxOrderInfo(o)
            str == SignStringOf(apiKey, wx)
        IN  /\ payReq' = b
            /\ IF PayParamsMissing(b)
               THEN /\ payRes' = [NoRes EXCEPT !.status = 400,
                        !.error = "appId and appSecret and mchId and apiKey are required"]
                    /\ payPc' = "done"
                    /\ UNCHANGED <<orderInfo, signString, payXml, payCalls>>
               ELSE /\ orderInfo' = o
                    /\ signString' = str
                    /\ payXml' = BuildObject(WithSign(wx, MD5Hex(str)))
                    /\ payCalls' = payCalls + 1
                    /\ payPc' = "awaitGateway"
                    /\ UNCHANGED payRes
    /\ UNCHANGED <<payReply, wxVars, ntVars, apiVars>>

\* the rest of onPostWxPayV2 once axios.post settles, and the route's
\* res.json({ data }) or its catch
PayGatewayReply ==
    /\ payPc = "awaitGateway"
    /\ \E reply \in PayReplies, timeStamp \in Times :
        LET prepay == PrepayIdOf(reply.xml)
        IN  /\ payReply' = reply
            /\ payRes' =
                 IF reply.kind # "xml"
                 THEN [NoRes EXCEPT !.status = 400, !.error = reply.message]
                 ELSE IF prepay.threw
                 THEN [NoRes EXCEPT !.status = 400,
                        !.error = "Cannot read properties of undefined (reading '0')"]
                 ELSE [NoRes EXCEPT !.status = 200,
                        !.data = PayResult(orderInfo, prepay.value, timeStamp,
                                           payReq.apiKey)]
    /\ payPc' = "done"
    /\ UNCHANGED <<payReq, orderInfo, signString, payXml, payCalls,
                   wxVars, ntVars, apiVars>>

PayNext == PayReceive \/ PayGatewayReply

-----------------------------------------------------------------------------
(* Properties of POST /pay/v2.                                             *)

\* a string cut at every '&': the segments between consecutive cuts
SplitAmp(str) ==
    LET starts == {0} \cup {i \in 1..Len(str) : str[i] = S_amp[1]}
        cuts == starts \cup {Len(str) + 1}
        Nth(k) == CHOOSE c \in starts : Cardinality({x \in starts : x < c}) = k - 1
        After(c) == CHOOSE n \in cuts : n > c /\ \A m \in cuts : m > c => n <= m
    IN  [k \in 1..Cardinality(starts) |->
            SubSeq(str, Nth(k) + 1, After(Nth(k)) - 1)]

\* position of the first '=' of a segment (0 when it has none)
EqAt(seg) ==
    IF \E i \in 1..Len(seg) : seg[i] = S_eq[1]
    THEN CHOOSE i \in 1..Len(seg) :
            seg[i] = S_eq[1] /\ \A j \in 1..(i - 1) : seg[j] # S_eq[1]
    ELSE 0

SegName(seg) == SubSeq(seg, 1, EqAt(seg) - 1)

SegValue(seg) == SubSeq(seg, EqAt(seg) + 1, Len(seg))

\* the name=value segments of the signing string, without the final key=
SignedSegments ==
    LET segs == SplitAmp(signString)
    IN  SubSeq(segs, 1, Len(segs) - 1)

SignedNames == {SegName(SignedSegments[i]) : i \in 1..Len(SignedSegments)}

PayloadNames == {payXml[i].name : i \in 1..Len(payXml)}

GatewayNames ==
    {K_appid, K_mch_id, K_nonce_str, K_body, K_attach, K_out_trade_no,
     K_total_fee, K_notify_url, K_openid, K_trade_type}

Posted == payPc \in {"awaitGateway", "done"} /\ payCalls > 0

\* C2: for every order passed to onPostWxPayV2 the signing string is the
\* name=value& segments of the gateway field names in strictly ascending
\* code-unit order, each name once, then key=<apiKey>; sign is not among the
\* signed names; the payload posted is the signed field set plus sign, whose
\* text is the digest of the signing string.
C2_CanonicalSigningString ==
    Posted =>
        LET all == SplitAmp(signString)
            segs == SignedSegments
        IN  /\ all[Len(all)] = S_keyEq \o payReq.apiKey.s
            /\ Len(segs) = Cardinality(GatewayNames)
            /\ SignedNames = GatewayNames
            /\ \A i \in 1..(Len(segs) - 1) :
                  LexLess(SegName(segs[i]), SegName(segs[i + 1]))
            /\ \A i \in 1..Len(segs) :
                  /\ EqAt(segs[i]) > 0
                  /\ SegValue(segs[i]) =
                        StringOf(Get(WxOrderInfo(orderInfo), SegName(segs[i])))
            /\ K_sign \notin SignedNames
            /\ PayloadNames = SignedNames \cup {K_sign}
            /\ Len(payXml) = Len(segs) + 1
            /\ \A i \in 1..Len(payXml) :
                  payXml[i].name = K_sign => payXml[i].text = MD5Hex(signString)

\* C2 witness: an order with every optional field supplied has been signed
\* and posted.
C2_Witness ==
    /\ payPc = "awaitGateway"
    /\ orderInfo.openId = Str(S_oid)
    /\ orderInfo.notifyUrl = Str(S_url)
    /\ signString # <<>>

\* the optional order fields and their gateway names
OptionalFields ==
    {<<K_openid, orderInfo.openId>>, <<K_notify_url, orderInfo.notifyUrl>>,
     <<K_attach, orderInfo.attach>>}

\* C3 (as claimed): only non-empty fields are signed and submitted: an
\* optional field (openId, notifyUrl, attach) that is absent or empty has no
\* segment in the signing string and no element in the payload, and a
\* non-empty one is present in both.
C3_OnlyNonEmptyFieldsSigned ==
    Posted =>
        \A f \in OptionalFields :
            IF Truthy(f[2])
            THEN f[1] \in SignedNames /\ f[1] \in PayloadNames
            ELSE f[1] \notin SignedNames /\ f[1] \notin PayloadNames

\* C4: paySign is the digest of appId, nonceStr, package, signType,
\* timeStamp in that literal order followed by key=<apiKey>, over exactly
\* the values returned: signType "MD5" and package prepay_id=<prepay_id>
\* with the prepay_id of the gateway's reply to this request.
C4_PaySignOverReturnedValues ==
    payRes.status = 200 =>
        LET d == payRes.data
        IN  /\ d.appId = payReq.appId.s
            /\ d.nonceStr = orderInfo.nonceString.s
            /\ d.timeStamp \in Times
            /\ d.signType = S_MD5
            /\ HasKey(payReply.xml, K_prepay_id)
            /\ d.package = S_prepayIdEq \o Get(payReply.xml, K_prepay_id)[1]
            /\ d.paySign =
                 MD5Hex(S_appIdEq \o d.appId \o S_ampNonceStrEq \o d.nonceStr
                        \o S_ampPackageEq \o d.package
                        \o S_ampSignTypeEq \o d.signType
                        \o S_ampTimeStampEq \o d.timeStamp
                        \o S_ampKeyEq \o payReq.apiKey.s)

\* C4 witness: the gateway issued prepay id pp2 and the client parameters
\* were returned.
C4_Witness ==
    /\ payPc = "done"
    /\ payRes.status = 200
    /\ payReply.xml = XmlOk(S_pp2)
    /\ payRes.data.paySign # <<>>

\* the unified-order call failed, or its parsed reply has no prepay_id
OrderCallFailed ==
    \/ payReply.kind \in {"networkError", "httpError", "notXml"}
    \/ payReply.kind = "xml" /\ ~HasKey(payReply.xml, K_prepay_id)

\* C6: a /pay/v2 request with its required parameters present whose
\* unified-order call fails or whose reply has no prepay_id is answered 400
\* with {error: message}, never 200 with client parameters, and the gateway
\* is called at most once for the request.
C6_FailedOrderIs400 ==
    /\ payCalls <= 1
    /\ (payPc = "done" /\ ~PayParamsMissing(payReq) /\ OrderCallFailed) =>
          /\ payRes.status = 400
          /\ payRes.error # ""
          /\ payRes.data = NoData
          /\ payCalls = 1

\* C6 witness: the gateway answered with a FAIL document without prepay_id
\* and the request was closed.
C6_Witness ==
    /\ payPc = "done"
    /\ payReply.kind = "xml"
    /\ payReply.xml = XmlFail
    /\ payRes.status = 400

-----------------------------------------------------------------------------
(* POST /pay/v2/notify: router.post('/pay/v2/notify') and onWxPayV2Notify. *)

\* chunks one request body may arrive in
MaxChunks == 3

\* Content-Type headers callers send
ContentTypes ==
    {"text/xml", "application/xml", "application/xml; charset=utf-8",
     "application/json", "text/plain"}

\* the media type of a Content-Type header, its parameters dropped
MediaType(contentType) ==
    IF contentType = "application/xml; charset=utf-8" THEN "application/xml"
    ELSE contentType

\* req.is(type) for a request that has a body: the media types match
ReqIs(req, type) == MediaType(req.headers.contentType) = type

\* pieces of a notification body as the utf8 decoder hands them over
BodyChunks == {<<60, 120, 109, 108, 62>>, <<111, 107>>, <<60, 47, 120, 109, 108, 62>>}

NoNtReq == [headers |-> [contentType |-> "", userAgent |-> ""]]

\* what res.send is given: kind "headers" (the req.headers object), "data"
\* (the { data: xml } of onWxPayV2Notify), "function" (a function value) or
\* "error" (the framework's own error page)
NtBody(kind, headers, xml) == [kind |-> kind, headers |-> headers, xml |-> xml]

\* req.header is Express's header-lookup method (req.get), a function, on
\* every request; req.headers is the header object
ReqHeaderMember(req) == NtBody("function", NoNtReq.headers, <<>>)

ReqHeadersMember(req) == NtBody("headers", req.headers, <<>>)

\* a || b: a when it is truthy; a function always is
OrElse(a, b) == IF a.kind = "function" THEN a ELSE b

\* res.send(body): an object is sent as JSON with status 200; a function is
\* neither string, Buffer nor object, and converting it to a Buffer throws.
\* The throw leaves the async handler's promise rejected: nothing is sent
\* when the framework ignores the rejection, its 500 page when it forwards
\* it to the error handler.
ResSend(body) ==
    IF body.kind = "function"
    THEN {<<>>, <<[status |-> 500, body |-> NtBody("error", NoNtReq.headers, <<>>)]>>}
    ELSE {<<[status |-> 200, body |-> body]>>}

\* async function onWxPayV2Notify(xml) { return { data: xml } }
onWxPayV2Notify(xml) == NtBody("data", NoNtReq.headers, xml)

\* the handler up to `await new Promise(...)`: the content-type test, then
\* either the early res.send or the 'data' and 'end' listeners
NtReceive ==
    /\ ntPc = "idle"
    /\ \E contentType \in ContentTypes :
        LET req == [headers |-> [contentType |-> contentType, userAgent |-> "Mozilla/4.0"]]
        IN  /\ ntReq' = req
            /\ IF ~ReqIs(req, "text/xml") /\ ~ReqIs(req, "application/xml")
               THEN /\ ntSent' \in ResSend(OrElse(ReqHeaderMember(req),
                                                  ReqHeadersMember(req)))
                    /\ ntPc' = "done"
                    /\ UNCHANGED ntRead
               ELSE /\ ntRead' = TRUE
                    /\ ntPc' = "reading"
                    /\ UNCHANGED ntSent
    /\ UNCHANGED <<ntXml, ntChunks, ntEnded, wxVars, payVars, apiVars>>

\* req.on('data', (chunk) => (xml += chunk))
NtData ==
    /\ ntPc = "reading"
    /\ Len(ntChunks) < MaxChunks
    /\ \E chunk \in BodyChunks :
        /\ ntChunks' = Append(ntChunks, chunk)
        /\ ntXml' = ntXml \o chunk
    /\ UNCHANGED <<ntPc, ntReq, ntRead, ntEnded, ntSent, wxVars, payVars, apiVars>>

\* req.on('end', () => s(xml)), then the rest of the handler:
\* res.send(await onWxPayV2Notify(xml))
NtEnd ==
    /\ ntPc = "reading"
    /\ ntEnded' = TRUE
    /\ ntSent' \in {ntSent \o sent : sent \in ResSend(onWxPayV2Notify(ntXml))}
    /\ ntPc' = "done"
    /\ UNCHANGED <<ntReq, ntXml, ntChunks, ntRead, wxVars, payVars, apiVars>>

NtNext == NtReceive \/ NtData \/ NtEnd

\* the chunks of a sequence joined in order
RECURSIVE Joined(_)
Joined(chunks) ==
    IF chunks = <<>> THEN <<>> ELSE Head(chunks) \o Joined(Tail(chunks))

IsXmlRequest == MediaType(ntReq.headers.contentType) \in {"text/xml", "application/xml"}

\* C9 (as claimed): a notification whose content type is text/xml or
\* application/xml gets exactly one response, only after the stream's end
\* event, with body {data: xml}, xml being all chunks in arrival order; for
\* any other content type the response is the request's headers unmodified
\* and the body is never read.
C9_NotifyPassThrough ==
    /\ (ntPc # "idle" /\ IsXmlRequest) =>
          /\ Len(ntSent) <= 1
          /\ ntSent # <<>> =>
                /\ ntEnded
                /\ ntSent[1].status = 200
                /\ ntSent[1].body = NtBody("data", NoNtReq.headers, Joined(ntChunks))
          /\ ntPc = "done" => Len(ntSent) = 1
    /\ (ntPc = "done" /\ ~IsXmlRequest) =>
          /\ ~ntRead
          /\ ntSent = <<[status |-> 200,
                         body |-> NtBody("headers", ntReq.headers, <<>>)]>>

-----------------------------------------------------------------------------
(* routes/api.js: GET /wx/mp, GET /wx/openid, GET /wx/acode.               *)

\* a response of api.js: a JSON body {error} or {data}, or the raw value
\* handed to res.send (qr)
ApiRes(status, error, data, qr) ==
    [status |-> status, error |-> error, data |-> data, qr |-> qr]

\* an async handler's promise rejects with nothing to catch it: nothing
\* more is sent when the framework ignores the rejection; when it forwards
\* it to the error handler a 500 page is sent, unless a response was
\* already sent
Unhandled(sent) ==
    IF sent = <<>>
    THEN {sent, <<ApiRes(500, "Internal Server Error", NoJson, <<>>)>>}
    ELSE {sent}

\* if (!appId || !appSecret) of onGetWxMpAccessToken(req, res)
ApiMpParamsMissing(q) == ~Truthy(q.appId) \/ ~Truthy(q.appSecret)

\* if (!appId || !appSecret || !code) of onGetWxMpOpenId(req, res)
ApiOpenIdParamsMissing(q) ==
    ~Truthy(q.appId) \/ ~Truthy(q.appSecret) \/ ~Truthy(q.code)

\* if (!appId || !appSecret || !page) of onGetWxMpACode(req, res)
ApiACodeParamsMissing(q) ==
    ~Truthy(q.appId) \/ ~Truthy(q.appSecret) \/ ~Truthy(q.page)

\* what onGetWxMpAccessToken(req, res) returns once it has answered with
\* res.json({ data }): the function ends without a return statement
TokenHandlerReturn == Undefined

\* GET /wx/mp: onGetWxMpAccessToken(req, res) up to `await axios.get(url)`
ApiGetMp ==
    /\ apiPc = "idle"
    /\ \E appId \in Field(S_wx1), appSecret \in Field(S_sec) :
        LET q == [NoWxReq EXCEPT !.route = "/wx/mp", !.appId = appId,
                                 !.appSecret = appSecret]
        IN  /\ apiReq' = q
            /\ IF ApiMpParamsMissing(q)
               THEN /\ apiSent' = <<ApiRes(400, "appId and appSecret are required",
                                           NoJson, <<>>)>>
                    /\ apiPc' = "done"
                    /\ UNCHANGED apiCalls
               ELSE /\ apiCalls' = <<TokenCall(appId, appSecret)>>
                    /\ apiPc' = "awaitToken"
                    /\ UNCHANGED apiSent
    /\ UNCHANGED <<apiUp, wxVars, payVars, ntVars>>

\* GET /wx/openid: onGetWxMpOpenId(req, res) up to `await axios.get(url)`
ApiGetOpenId ==
    /\ apiPc = "idle"
    /\ \E appId \in Field(S_wx1), appSecret \in Field(S_sec), code \in Field(S_c1) :
        LET q == [NoWxReq EXCEPT !.route = "/wx/openid", !.appId = appId,
                                 !.appSecret = appSecret, !.code = code]
        IN  /\ apiReq' = q
            /\ IF ApiOpenIdParamsMissing(q)
               THEN /\ apiSent' = <<ApiRes(400, "appId and appSecret and code are required",
                                           NoJson, <<>>)>>
                    /\ apiPc' = "done"
                    /\ UNCHANGED apiCalls
               ELSE /\ apiCalls' = <<OpenIdCall(appId, appSecret, code)>>
                    /\ apiPc' = "awaitOpenId"
                    /\ UNCHANGED apiSent
    /\ UNCHANGED <<apiUp, wxVars, payVars, ntVars>>

\* GET /wx/acode: onGetWxMpACode(req, res) through its guard and into
\* onGetWxMpAccessToken(req, res), whose own guard the same appId and
\* appSecret pass, up to `await axios.get(url)`
ApiGetACode ==
    /\ apiPc = "idle"
    /\ \E appId \in Field(S_wx1), appSecret \in Field(S_sec),
          page \in Field(S_p1), scene \in Field(S_s1) :
        LET q == [NoWxReq EXCEPT !.route = "/wx/acode", !.appId = appId,
                                 !.appSecret = appSecret, !.page = page,
                                 !.scene = scene]
        IN  /\ apiReq' = q
            /\ IF ApiACodeParamsMissing(q)
               THEN /\ apiSent' = <<ApiRes(400, "appId and appSecret and page are required",
                                           NoJson, <<>>)>>
                    /\ apiPc' = "done"
                    /\ UNCHANGED apiCalls
               ELSE IF ApiMpParamsMissing(q)
               THEN /\ apiSent' = <<ApiRes(400, "appId and appSecret are required",
                                           NoJson, <<>>)>>
                    /\ apiPc' = "done"
                    /\ UNCHANGED apiCalls
               ELSE /\ apiCalls' = <<TokenCall(appId, appSecret)>>
                    /\ apiPc' = "awaitToken"
                    /\ UNCHANGED apiSent
    /\ UNCHANGED <<apiUp, wxVars, payVars, ntVars>>

\* the token call settles inside onGetWxMpAccessToken(req, res): a rejection
\* leaves the handler, data is answered with res.json({ data }). For
\* /wx/acode the caller then runs `let { data } = <returned value>`:
\* destructuring undefined throws a TypeError, which ends onGetWxMpACode
\* before its axios.post.
ApiTokenReply ==
    /\ apiPc = "awaitToken"
    /\ \E reply \in TokenReplies :
        /\ apiUp' = reply
        /\ IF reply.kind = "reject"
           THEN /\ apiSent' \in Unhandled(apiSent)
                /\ apiPc' = "done"
                /\ UNCHANGED apiCalls
           ELSE LET sent == Append(apiSent, ApiRes(200, "", reply.json, <<>>))
                IN  IF apiReq.route = "/wx/mp"
                    THEN /\ apiSent' = sent
                         /\ apiPc' = "done"
                         /\ UNCHANGED apiCalls
                    ELSE IF TokenHandlerReturn.t = "undefined"
                    THEN /\ apiSent' \in Unhandled(sent)
                         /\ apiPc' = "done"
                         /\ UNCHANGED apiCalls
                    ELSE /\ apiSent' = sent
                         /\ apiCalls' = Append(apiCalls,
                                ACodeCall(NoJson, apiReq.scene, apiReq.page, Undefined))
                         /\ apiPc' = "awaitACode"
    /\ UNCHANGED <<apiReq, wxVars, payVars, ntVars>>

\* the jscode2session call settles inside onGetWxMpOpenId(req, res)
ApiOpenIdReply ==
    /\ apiPc = "awaitOpenId"
    /\ \E reply \in OpenIdReplies :
        /\ apiUp' = reply
        /\ IF reply.kind = "reject"
           THEN apiSent' \in Unhandled(apiSent)
           ELSE apiSent' = Append(apiSent, ApiRes(200, "", reply.json, <<>>))
    /\ apiPc' = "done"
    /\ UNCHANGED <<apiReq, apiCalls, wxVars, payVars, ntVars>>

\* the position after onGetWxMpACode's axios.post is never reached
ApiNeverPostsACode == apiPc # "awaitACode"

\* the getwxacodeunlimit call settles and res.send(buffer) runs. No run
\* reaches "awaitACode" (ApiNeverPostsACode), so this step is not part of
\* ApiNext.
ApiACodeReply ==
    /\ apiPc = "awaitACode"
    /\ \E reply \in ACodeReplies(apiCalls[2]) :
        IF reply.kind = "reject"
        THEN apiSent' \in Unhandled(apiSent)
        ELSE apiSent' = Append(apiSent, ApiRes(200, "", NoJson, reply.bytes))
    /\ apiPc' = "done"
    /\ UNCHANGED <<apiReq, apiCalls, apiUp, wxVars, payVars, ntVars>>

ApiNext ==
    \/ ApiGetMp
    \/ ApiGetOpenId
    \/ ApiGetACode
    \/ ApiTokenReply
    \/ ApiOpenIdReply

\* C10 (as claimed): a GET /wx/acode request of api.js with appId,
\* appSecret and page present, whose token call succeeded, gets exactly one
\* response, sent after the getwxacodeunlimit call, whose body is the
\* QR-code data of that call and not the access-token JSON.
C10_ApiACodeSendsQrCode ==
    (/\ apiReq.route = "/wx/acode"
     /\ ~MissingOrEmpty(apiReq.appId)
     /\ ~MissingOrEmpty(apiReq.appSecret)
     /\ ~MissingOrEmpty(apiReq.page)
     /\ apiUp.kind = "json"
     /\ apiUp.json.access_token = Str(S_T1)
     /\ apiPc = "done")
    => /\ Len(apiSent) = 1
       /\ \E i \in 1..Len(apiCalls) : apiCalls[i].api = "wxa/getwxacodeunlimit"
       /\ apiSent[1].qr # <<>>
       /\ apiSent[1].data = NoJson

-----------------------------------------------------------------------------
(* The server after start-up: no request has arrived on any route.         *)

Init ==
    /\ wxReq = [r \in Requests |-> NoWxReq]
    /\ wxPc = [r \in Requests |-> "idle"]
    /\ wxReply = [r \in Requests |-> NoUpstream]
    /\ wxCalls = [r \in Requests |-> <<>>]
    /\ wxWrote = [r \in Requests |-> FALSE]
    /\ wxRes = [r \in Requests |-> NoWxRes]
    /\ wxOverlap = {}
    /\ wxGot = [r \in Requests |-> NoGot]
    /\ bufferPng = <<>>
    /\ payPc = "idle"
    /\ payReq = NoPayReq
    /\ orderInfo = NoOrder
    /\ signString = <<>>
    /\ payXml = <<>>
    /\ payCalls = 0
    /\ payReply = NoReply
    /\ payRes = NoRes
    /\ ntPc = "idle"
    /\ ntReq = NoNtReq
    /\ ntXml = <<>>
    /\ ntChunks = <<>>
    /\ ntRead = FALSE
    /\ ntEnded = FALSE
    /\ ntSent = <<>>
    /\ apiPc = "idle"
    /\ apiReq = NoWxReq
    /\ apiCalls = <<>>
    /\ apiUp = NoUpstream
    /\ apiSent = <<>>

\* requests to routes/wx/wx.js
SpecWx == Init /\ [][WxNext]_vars

\* a request to POST /pay/v2
SpecPay == Init /\ [][PayNext]_vars

\* a request to POST /pay/v2/notify
SpecNotify == Init /\ [][NtNext]_vars

\* a request to routes/api.js
SpecApi == Init /\ [][ApiNext]_vars

=============================================================================
